---- MODULE Spec2Model ----
(***************************************************************************)
(* Model of the Forward Email desktop shell (src-tauri/src/lib.rs): the    *)
(* deep-link validator, the four IPC commands, the tray callbacks, the     *)
(* single-instance callback, the deep-link listener and the startup        *)
(* sequence of run().                                                      *)
(*                                                                         *)
(* A string is a sequence of one-character strings, so that trim,          *)
(* starts_with and contains are computed character by character.           *)
(***************************************************************************)
EXTENDS Integers, Sequences, FiniteSets, TLC

VARIABLES
    pc,           \* position of run(): start, setup, listen, emit_ready, running, panicked, exited
    window,       \* the host's window labelled "main": exists / visible / focused
    trayBuilt,    \* setup_tray returned Ok: the tray callbacks are installed
    siRegistered, \* the single-instance callback is installed
    listening,    \* the deep-link://new-url listener is installed
    readyEmits,   \* number of emit("tauri-ready") calls made so far in this run
    lastOp,       \* history: the latest command, callback or startup step, with its input and result
    hostCalls,    \* history: the window calls the latest step made, in order, with their outcome
    lastEmits,    \* history: the emit calls the latest step made, in order, with payload and outcome
    toggles,      \* history: the toggle_window_visibility calls made back to back, ending now (last two)
    vIn,          \* validator harness: the string handed to is_valid_deep_link
    vOut          \* validator harness: whether it was called, and what it returned

vars == <<pc, window, trayBuilt, siRegistered, listening, readyEmits,
          lastOp, hostCalls, lastEmits, toggles, vIn, vOut>>

(***************************************************************************)
(* Bounds of the model.                                                    *)
(***************************************************************************)
MaxArgs == 3      \* longest argument list / URL list of a host signal, one signal at a time
MaxLiveArgs == 1  \* longest argument list / URL list of a host signal, signals following each other
MaxPad == 1       \* longest run of whitespace put around a validator input
BadgeSpread == 2  \* badge counts are drawn this far around 0 and around the limit

(***************************************************************************)
(* Strings.                                                                *)
(***************************************************************************)
Whitespace == {" ", "\t", "\n"}

Mailto == <<"m", "a", "i", "l", "t", "o", ":">>
ForwardEmail == <<"f", "o", "r", "w", "a", "r", "d", "e", "m", "a", "i", "l", ":">>
SchemeSep == <<":", "/", "/">>

UrlMailto == <<"m", "a", "i", "l", "t", "o", ":", "a", "@", "b", ".", "c", "o", "m">>
UrlCustom == <<"f", "o", "r", "w", "a", "r", "d", "e", "m", "a", "i", "l", ":", "/", "/", "o", "p", "e", "n">>
UrlCustomPadded == <<" ">> \o UrlCustom \o <<"\n">>
UrlHttp == <<"h", "t", "t", "p", ":", "/", "/", "b", "a", "d">>
UrlJs == <<"j", "a", "v", "a", "s", "c", "r", "i", "p", "t", ":", "a", "l", "e", "r", "t", "(", "1", ")">>
ArgFlag == <<"-", "-", "f", "l", "a", "g">>

\* Bodies of the validator's inputs: allowed, disallowed, near misses.
Cores ==
    { <<>>, Mailto, ForwardEmail, UrlMailto, UrlCustom, UrlHttp, UrlJs, ArgFlag,
      <<"m", "a", "i", "l", "t", "o">>,
      <<"f", "o", "r", "w", "a", "r", "d", "e", "m", "a", "i", ":">>,
      <<"M", "A", "I", "L", "T", "O", ":", "a">>,
      <<"x", "m", "a", "i", "l", "t", "o", ":", "a">>,
      <<"h", "t", "t", "p", ":", "/", "/", "x", "?", "m", "a", "i", "l", "t", "o", ":", "a">>,
      <<"m", "a", "i", "l", " ", "t", "o", ":", "a">>,
      <<"m", "a", "i", "l", "t", "o", ":", "a", " ", "b">>,
      <<"f", "i", "l", "e", ":", "/", "/", "/", "e", "t", "c">> }

SeqsUpTo(S, n) == UNION { [1..k -> S] : k \in 0..n }

Pads == SeqsUpTo(Whitespace, MaxPad)

ValidatorInputs == { l \o c \o t : l \in Pads, c \in Cores, t \in Pads }

\* str::trim_start / str::trim_end / str::trim
RECURSIVE TrimStart(_)
TrimStart(s) ==
    IF s # <<>> /\ Head(s) \in Whitespace THEN TrimStart(Tail(s)) ELSE s

RECURSIVE TrimEnd(_)
TrimEnd(s) ==
    IF s # <<>> /\ s[Len(s)] \in Whitespace THEN TrimEnd(SubSeq(s, 1, Len(s) - 1)) ELSE s

Trim(s) == TrimEnd(TrimStart(s))

\* str::starts_with
StartsWith(s, p) == Len(s) >= Len(p) /\ SubSeq(s, 1, Len(p)) = p

\* str::contains
Contains(s, sub) ==
    \E i \in 1..(Len(s) - Len(sub) + 1) : SubSeq(s, i, i + Len(sub) - 1) = sub

\* Mutant of is_valid_deep_link: the trim is forgotten.
is_valid_deep_link_untrimmed(url) ==
    StartsWith(url, Mailto) \/ StartsWith(url, ForwardEmail)

is_valid_deep_link(url) ==
    LET trimmed == Trim(url)
    IN  StartsWith(trimmed, Mailto) \/ StartsWith(trimmed, ForwardEmail)

(***************************************************************************)
(* The host's main window and the calls the code makes on it.  A call that *)
(* fails leaves the window as it was.                                      *)
(***************************************************************************)
Absent == [exists |-> FALSE, visible |-> FALSE, focused |-> FALSE]

WindowStates ==
    { Absent,
      [exists |-> TRUE, visible |-> TRUE, focused |-> TRUE],
      [exists |-> TRUE, visible |-> TRUE, focused |-> FALSE],
      [exists |-> TRUE, visible |-> FALSE, focused |-> FALSE] }

\* The label of the only window the code ever looks up.
MainLabel == "main"

Call(name, ok) == [call |-> name, ok |-> ok, target |-> MainLabel]

CallNames(calls) == [i \in 1..Len(calls) |-> calls[i].call]

HostShow(w, ok) == IF ok THEN [w EXCEPT !.visible = TRUE] ELSE w

HostHide(w, ok) == IF ok THEN [w EXCEPT !.visible = FALSE, !.focused = FALSE] ELSE w

HostSetFocus(w, ok) == IF ok THEN [w EXCEPT !.focused = TRUE] ELSE w

\* window.is_visible().unwrap_or(false)
IsVisibleOrFalse(w, ok) == IF ok THEN w.visible ELSE FALSE

HostErrorMsg == "host error"
NotFoundMsg == "Main window not found"
BadgeRangeMsg == "Badge count must be between 0 and 99999"

\* if let Some(window) = app.get_webview_window("main") { let _ = window.show(); let _ = window.set_focus(); }
ShowAndFocus(w, showOk, focusOk) ==
    IF w.exists
    THEN [window |-> HostSetFocus(HostShow(w, showOk), focusOk),
          calls  |-> <<Call("show", showOk), Call("set_focus", focusOk)>>]
    ELSE [window |-> w, calls |-> <<>>]

(***************************************************************************)
(* Events handed to emit(), with the outcome of the emit call.             *)
(***************************************************************************)
ReadyEvent(ok) ==
    [name |-> "tauri-ready", urls |-> <<>>, args |-> <<>>, cwd |-> "", ok |-> ok]

DeepLinkEvent(urls, ok) ==
    [name |-> "deep-link-received", urls |-> urls, args |-> <<>>, cwd |-> "", ok |-> ok]

SingleInstanceEvent(args, cwd, ok) ==
    [name |-> "single-instance", urls |-> <<>>, args |-> args, cwd |-> cwd, ok |-> ok]

(***************************************************************************)
(* The payload of deep-link://new-url is JSON text, here a sequence of     *)
(* tokens; serde_json::from_str::<Vec<String>> accepts exactly             *)
(* "[" string ("," string)* "]" and "[" "]".                               *)
(***************************************************************************)
Tok(t, v) == [t |-> t, v |-> v]

RECURSIVE JoinStrings(_)
JoinStrings(urls) ==
    IF urls = <<>> THEN <<>>
    ELSE IF Len(urls) = 1 THEN <<Tok("string", urls[1])>>
    ELSE <<Tok("string", urls[1]), Tok(",", <<>>)>> \o JoinStrings(Tail(urls))

\* What the deep-link plugin sends: the URLs as a JSON array.
EncodeJson(urls) == <<Tok("[", <<>>)>> \o JoinStrings(urls) \o <<Tok("]", <<>>)>>

ParseFailed == [ok |-> FALSE, urls |-> <<>>]

\* Mutant of ParseVecString: a trailing comma before the closing bracket is accepted.
ParseVecStringLenient(p) ==
    IF Len(p) < 2 \/ p[1].t # "[" \/ p[Len(p)].t # "]" THEN ParseFailed
    ELSE LET body == SubSeq(p, 2, Len(p) - 1)
             inner == IF body # <<>> /\ body[Len(body)].t = ","
                      THEN SubSeq(body, 1, Len(body) - 1) ELSE body
             n == (Len(inner) + 1) \div 2
         IN  IF inner = <<>> THEN [ok |-> TRUE, urls |-> <<>>]
             ELSE IF /\ Len(inner) % 2 = 1
                     /\ \A i \in 1..Len(inner) :
                            inner[i].t = (IF i % 2 = 1 THEN "string" ELSE ",")
                  THEN [ok |-> TRUE, urls |-> [i \in 1..n |-> inner[2 * i - 1].v]]
                  ELSE ParseFailed

ParseVecString(p) ==
    IF Len(p) < 2 \/ p[1].t # "[" \/ p[Len(p)].t # "]" THEN ParseFailed
    ELSE LET inner == SubSeq(p, 2, Len(p) - 1)
             n == (Len(inner) + 1) \div 2
         IN  IF inner = <<>> THEN [ok |-> TRUE, urls |-> <<>>]
             ELSE IF /\ Len(inner) % 2 = 1
                     /\ \A i \in 1..Len(inner) :
                            inner[i].t = (IF i % 2 = 1 THEN "string" ELSE ",")
                  THEN [ok |-> TRUE, urls |-> [i \in 1..n |-> inner[2 * i - 1].v]]
                  ELSE ParseFailed

MalformedPayloads ==
    { <<>>,
      <<Tok("{", <<>>), Tok("}", <<>>)>>,
      <<Tok("string", UrlMailto)>>,
      <<Tok("[", <<>>), Tok("number", <<"1">>), Tok("]", <<>>)>>,
      <<Tok("[", <<>>), Tok("string", UrlMailto), Tok(",", <<>>), Tok("]", <<>>)>>,
      <<Tok("[", <<>>), Tok("string", UrlMailto)>> }

(***************************************************************************)
(* Inputs.                                                                 *)
(***************************************************************************)
ArgPool == {ArgFlag, UrlCustom, UrlHttp, UrlJs}
UrlPool == {UrlMailto, UrlCustomPadded, UrlHttp, UrlJs}
CwdPool == {"/tmp", "/home/user"}

ArgLists == SeqsUpTo(ArgPool, MaxArgs)
UrlLists == SeqsUpTo(UrlPool, MaxArgs)
Payloads == { EncodeJson(u) : u \in UrlLists } \cup MalformedPayloads

LiveArgLists == SeqsUpTo(ArgPool, MaxLiveArgs)
LiveUrlLists == SeqsUpTo(UrlPool, MaxLiveArgs)
LivePayloads == { EncodeJson(u) : u \in LiveUrlLists } \cup MalformedPayloads

BadgeMax == 99999
BadgeCounts ==
    (0..BadgeSpread) \cup ((BadgeMax - BadgeSpread)..(BadgeMax + BadgeSpread))
        \cup {2147483647}

(***************************************************************************)
(* The filters of the two callbacks.                                       *)
(***************************************************************************)
\* Mutant of safe_args: only validated deep links pass, plain arguments are dropped.
safe_args_urls_only(args) == SelectSeq(args, is_valid_deep_link)

safe_args(args) ==
    SelectSeq(args, LAMBDA a : is_valid_deep_link(a) \/ ~Contains(a, SchemeSep))

\* Mutant of safe_urls: the kept URLs are forwarded trimmed.
safe_urls_trimmed(urls) ==
    LET kept == SelectSeq(urls, is_valid_deep_link)
    IN  [i \in 1..Len(kept) |-> Trim(kept[i])]

safe_urls(urls) == SelectSeq(urls, is_valid_deep_link)

\* Mutant of DeepLinkEmits: the emptiness check is forgotten.
DeepLinkEmitsAlways(kept, emitOk) == <<DeepLinkEvent(kept, emitOk)>>

\* if !safe_urls.is_empty() { let _ = handle.emit("deep-link-received", ...) }
DeepLinkEmits(kept, emitOk) ==
    IF kept # <<>> THEN <<DeepLinkEvent(kept, emitOk)>> ELSE <<>>

\* Mutant of SingleInstanceEmits: nothing is emitted when no argument is left.
SingleInstanceEmitsNonEmpty(kept, cwd, emitOk) ==
    IF kept # <<>> THEN <<SingleInstanceEvent(kept, cwd, emitOk)>> ELSE <<>>

\* let _ = app.emit("single-instance", SingleInstancePayload { args: safe_args, cwd })
SingleInstanceEmits(kept, cwd, emitOk) ==
    <<SingleInstanceEvent(kept, cwd, emitOk)>>

(***************************************************************************)
(* Results of the commands.                                                *)
(***************************************************************************)
Ok == [ok |-> TRUE, err |-> ""]
Err(msg) == [ok |-> FALSE, err |-> msg]

\* Mutant of BadgeResult: the limit itself is rejected too.
BadgeResultOffByOne(count) ==
    IF count >= BadgeMax THEN Err(BadgeRangeMsg) ELSE Ok

BadgeResult(count) ==
    IF count > BadgeMax THEN Err(BadgeRangeMsg) ELSE Ok

\* Mutant of Toggle: a missing window is not noticed before the host calls.
ToggleNoLookup(w, visOk, actOk, focusOk) ==
    IF IsVisibleOrFalse(w, visOk)
    THEN [window |-> HostHide(w, actOk),
          calls  |-> <<Call("is_visible", visOk), Call("hide", actOk)>>,
          res    |-> IF actOk THEN Ok ELSE Err(HostErrorMsg)]
    ELSE [window |-> HostSetFocus(HostShow(w, actOk), focusOk),
          calls  |-> <<Call("is_visible", visOk), Call("show", actOk),
                       Call("set_focus", focusOk)>>,
          res    |-> IF actOk /\ focusOk THEN Ok ELSE Err(HostErrorMsg)]

\* Mutant of Toggle: the window is shown and focused whatever its visibility.
ToggleAlwaysShow(w, visOk, actOk, focusOk) ==
    IF ~w.exists THEN [window |-> w, calls |-> <<>>, res |-> Err(NotFoundMsg)]
    ELSE IF ~actOk
    THEN [window |-> w,
          calls  |-> <<Call("is_visible", visOk), Call("show", FALSE)>>,
          res    |-> Err(HostErrorMsg)]
    ELSE [window |-> HostSetFocus(HostShow(w, TRUE), focusOk),
          calls  |-> <<Call("is_visible", visOk), Call("show", TRUE),
                       Call("set_focus", focusOk)>>,
          res    |-> IF focusOk THEN Ok ELSE Err(HostErrorMsg)]

\* Mutant of Toggle: a failure of set_focus is ignored (let _ = window.set_focus()).
ToggleFocusIgnored(w, visOk, actOk, focusOk) ==
    IF ~w.exists THEN [window |-> w, calls |-> <<>>, res |-> Err(NotFoundMsg)]
    ELSE IF IsVisibleOrFalse(w, visOk)
    THEN [window |-> HostHide(w, actOk),
          calls  |-> <<Call("is_visible", visOk), Call("hide", actOk)>>,
          res    |-> IF actOk THEN Ok ELSE Err(HostErrorMsg)]
    ELSE IF ~actOk
    THEN [window |-> w,
          calls  |-> <<Call("is_visible", visOk), Call("show", FALSE)>>,
          res    |-> Err(HostErrorMsg)]
    ELSE [window |-> HostSetFocus(HostShow(w, TRUE), focusOk),
          calls  |-> <<Call("is_visible", visOk), Call("show", TRUE),
                       Call("set_focus", focusOk)>>,
          res    |-> Ok]

\* Mutant of Toggle: a hidden window is shown and not focused.
ToggleShowOnly(w, visOk, actOk, focusOk) ==
    IF ~w.exists THEN [window |-> w, calls |-> <<>>, res |-> Err(NotFoundMsg)]
    ELSE IF IsVisibleOrFalse(w, visOk)
    THEN [window |-> HostHide(w, actOk),
          calls  |-> <<Call("is_visible", visOk), Call("hide", actOk)>>,
          res    |-> IF actOk THEN Ok ELSE Err(HostErrorMsg)]
    ELSE [window |-> HostShow(w, actOk),
          calls  |-> <<Call("is_visible", visOk), Call("show", actOk)>>,
          res    |-> IF actOk THEN Ok ELSE Err(HostErrorMsg)]

\* Mutant of Toggle: a failed visibility query counts as visible (unwrap_or(true)).
ToggleQueryFailureHides(w, visOk, actOk, focusOk) ==
    IF ~w.exists THEN [window |-> w, calls |-> <<>>, res |-> Err(NotFoundMsg)]
    ELSE IF (IF visOk THEN w.visible ELSE TRUE)
    THEN [window |-> HostHide(w, actOk),
          calls  |-> <<Call("is_visible", visOk), Call("hide", actOk)>>,
          res    |-> IF actOk THEN Ok ELSE Err(HostErrorMsg)]
    ELSE IF ~actOk
    THEN [window |-> w,
          calls  |-> <<Call("is_visible", visOk), Call("show", FALSE)>>,
          res    |-> Err(HostErrorMsg)]
    ELSE [window |-> HostSetFocus(HostShow(w, TRUE), focusOk),
          calls  |-> <<Call("is_visible", visOk), Call("show", TRUE),
                       Call("set_focus", focusOk)>>,
          res    |-> IF focusOk THEN Ok ELSE Err(HostErrorMsg)]

\* toggle_window_visibility: visOk, actOk, focusOk are the outcomes of
\* is_visible, of hide or show, and of set_focus.
Toggle(w, visOk, actOk, focusOk) ==
    IF ~w.exists THEN [window |-> w, calls |-> <<>>, res |-> Err(NotFoundMsg)]
    ELSE IF IsVisibleOrFalse(w, visOk)
    THEN [window |-> HostHide(w, actOk),
          calls  |-> <<Call("is_visible", visOk), Call("hide", actOk)>>,
          res    |-> IF actOk THEN Ok ELSE Err(HostErrorMsg)]
    ELSE IF ~actOk
    THEN [window |-> w,
          calls  |-> <<Call("is_visible", visOk), Call("show", FALSE)>>,
          res    |-> Err(HostErrorMsg)]
    ELSE [window |-> HostSetFocus(HostShow(w, TRUE), focusOk),
          calls  |-> <<Call("is_visible", visOk), Call("show", TRUE),
                       Call("set_focus", focusOk)>>,
          res    |-> IF focusOk THEN Ok ELSE Err(HostErrorMsg)]

(***************************************************************************)
(* The record of the latest step.                                          *)
(***************************************************************************)
EmitNames(emits) == [i \in 1..Len(emits) |-> emits[i].name]

\* Mutant of SingleInstanceOrder: the event is emitted before the window is
\* brought to the front.
SingleInstanceOrderEmitFirst(calls, emits) == EmitNames(emits) \o CallNames(calls)

\* The single-instance callback first calls the window, then emits.
SingleInstanceOrder(calls, emits) == CallNames(calls) \o EmitNames(emits)

\* order: for a step that both calls the window and emits, the sequence in
\* which it did so.
FirstOp(w) ==
    [op |-> "none", args |-> <<>>, cwd |-> "", count |-> 0, payload |-> <<>>,
     pre |-> w, res |-> Ok, ret |-> "", order |-> <<>>,
     dropped |-> FALSE, afterDrop |-> FALSE]

\* dropped: the step was the listener dropping a payload it could not parse;
\* afterDrop: the step before this one was.
Op(name, w) == [FirstOp(w) EXCEPT !.op = name, !.afterDrop = lastOp.dropped]

ToggleRecord(w, visOk, r) ==
    [pre |-> w, queryOk |-> visOk \/ ~w.exists, res |-> r.res]

LastTwo(s) == IF Len(s) > 2 THEN SubSeq(s, Len(s) - 1, Len(s)) ELSE s

Alive == pc \in {"start", "setup", "listen", "emit_ready", "running"}

AppVersion == "CARGO_PKG_VERSION"
TargetOs == "linux"
TargetArch == "x86_64"

\* Mutant of PlatformString: architecture first.
PlatformStringSwapped == TargetArch \o "-" \o TargetOs

\* format!("{}-{}", os, arch)
PlatformString == TargetOs \o "-" \o TargetArch

NoValidation == [called |-> FALSE, result |-> FALSE]

(***************************************************************************)
(* Init: the process has started, run() has not; the window is the host's. *)
(***************************************************************************)
Init ==
    /\ pc = "start"
    /\ window \in WindowStates
    /\ trayBuilt = FALSE
    /\ siRegistered = FALSE
    /\ listening = FALSE
    /\ readyEmits = 0
    /\ lastOp = FirstOp(window)
    /\ hostCalls = <<>>
    /\ lastEmits = <<>>
    /\ toggles = <<>>
    /\ vIn = <<>>
    /\ vOut = NoValidation

(***************************************************************************)
(* Startup: run().                                                         *)
(***************************************************************************)
\* builder.plugin(tauri_plugin_single_instance::init(|app, args, cwd| ...))
RegisterPlugins ==
    /\ pc = "start"
    /\ pc' = "setup"
    /\ siRegistered' = TRUE
    /\ lastOp' = Op("register_plugins", window)
    /\ hostCalls' = <<>>
    /\ lastEmits' = <<>>
    /\ toggles' = <<>>
    /\ UNCHANGED <<window, trayBuilt, listening, readyEmits, vIn, vOut>>

\* setup_tray(app)?  -- an Err leaves setup, and run() panics on it
setup_tray ==
    /\ pc = "setup"
    /\ \E ok \in BOOLEAN :
        /\ trayBuilt' = ok
        /\ pc' = IF ok THEN "listen" ELSE "panicked"
        /\ lastOp' = [Op("setup_tray", window) EXCEPT
                        !.res = IF ok THEN Ok ELSE Err(HostErrorMsg)]
    /\ hostCalls' = <<>>
    /\ lastEmits' = <<>>
    /\ toggles' = <<>>
    /\ UNCHANGED <<window, siRegistered, listening, readyEmits, vIn, vOut>>

\* app.listen("deep-link://new-url", ...)
RegisterListener ==
    /\ pc = "listen"
    /\ pc' = "emit_ready"
    /\ listening' = TRUE
    /\ lastOp' = Op("listen", window)
    /\ hostCalls' = <<>>
    /\ lastEmits' = <<>>
    /\ toggles' = <<>>
    /\ UNCHANGED <<window, trayBuilt, siRegistered, readyEmits, vIn, vOut>>

\* Mutant of EmitReady: the ready event is emitted before the listener is registered.
EmitReadyBeforeListen ==
    /\ pc = "listen"
    /\ \E ok \in BOOLEAN :
        /\ lastEmits' = <<ReadyEvent(ok)>>
        /\ pc' = IF ok THEN "running" ELSE "panicked"
        /\ lastOp' = [Op("emit_ready", window) EXCEPT
                        !.res = IF ok THEN Ok ELSE Err(HostErrorMsg)]
    /\ readyEmits' = readyEmits + 1
    /\ hostCalls' = <<>>
    /\ toggles' = <<>>
    /\ UNCHANGED <<window, trayBuilt, siRegistered, listening, vIn, vOut>>

\* app.emit("tauri-ready", ())?  -- an Err leaves setup, and run() panics on it
EmitReady ==
    /\ pc = "emit_ready"
    /\ \E ok \in BOOLEAN :
        /\ lastEmits' = <<ReadyEvent(ok)>>
        /\ pc' = IF ok THEN "running" ELSE "panicked"
        /\ lastOp' = [Op("emit_ready", window) EXCEPT
                        !.res = IF ok THEN Ok ELSE Err(HostErrorMsg)]
    /\ readyEmits' = readyEmits + 1
    /\ hostCalls' = <<>>
    /\ toggles' = <<>>
    /\ UNCHANGED <<window, trayBuilt, siRegistered, listening, vIn, vOut>>

(***************************************************************************)
(* IPC commands, invoked by the UI once the event loop runs.               *)
(***************************************************************************)
get_app_version ==
    /\ pc = "running"
    /\ lastOp' = [Op("get_app_version", window) EXCEPT !.ret = AppVersion]
    /\ hostCalls' = <<>>
    /\ lastEmits' = <<>>
    /\ toggles' = <<>>
    /\ UNCHANGED <<pc, window, trayBuilt, siRegistered, listening, readyEmits, vIn, vOut>>

get_platform ==
    /\ pc = "running"
    /\ lastOp' = [Op("get_platform", window) EXCEPT !.ret = PlatformString]
    /\ hostCalls' = <<>>
    /\ lastEmits' = <<>>
    /\ toggles' = <<>>
    /\ UNCHANGED <<pc, window, trayBuilt, siRegistered, listening, readyEmits, vIn, vOut>>

set_badge_count ==
    /\ pc = "running"
    /\ \E count \in BadgeCounts :
        lastOp' = [Op("set_badge_count", window) EXCEPT
                     !.count = count, !.res = BadgeResult(count)]
    /\ hostCalls' = <<>>
    /\ lastEmits' = <<>>
    /\ toggles' = <<>>
    /\ UNCHANGED <<pc, window, trayBuilt, siRegistered, listening, readyEmits, vIn, vOut>>

toggle_window_visibility ==
    /\ pc = "running"
    /\ \E visOk \in BOOLEAN, actOk \in BOOLEAN, focusOk \in BOOLEAN :
        LET r == Toggle(window, visOk, actOk, focusOk)
        IN  /\ window' = r.window
            /\ hostCalls' = r.calls
            /\ lastOp' = [Op("toggle_window_visibility", window) EXCEPT !.res = r.res]
            /\ toggles' = LastTwo(Append(toggles, ToggleRecord(window, visOk, r)))
    /\ lastEmits' = <<>>
    /\ UNCHANGED <<pc, trayBuilt, siRegistered, listening, readyEmits, vIn, vOut>>

(***************************************************************************)
(* Tray callbacks, installed by setup_tray.                                *)
(***************************************************************************)
TrayShow ==
    /\ pc = "running"
    /\ trayBuilt
    /\ \E showOk \in BOOLEAN, focusOk \in BOOLEAN :
        LET r == ShowAndFocus(window, showOk, focusOk)
        IN  /\ window' = r.window
            /\ hostCalls' = r.calls
    /\ lastOp' = Op("tray_show", window)
    /\ lastEmits' = <<>>
    /\ toggles' = <<>>
    /\ UNCHANGED <<pc, trayBuilt, siRegistered, listening, readyEmits, vIn, vOut>>

\* Mutant of TrayClick: a click on the icon hides a visible window.
TrayClickToggles ==
    /\ pc = "running"
    /\ trayBuilt
    /\ \E showOk \in BOOLEAN, focusOk \in BOOLEAN :
        LET r == IF window.exists /\ window.visible
                 THEN [window |-> HostHide(window, showOk),
                       calls  |-> <<Call("hide", showOk)>>]
                 ELSE ShowAndFocus(window, showOk, focusOk)
        IN  /\ window' = r.window
            /\ hostCalls' = r.calls
    /\ lastOp' = Op("tray_click", window)
    /\ lastEmits' = <<>>
    /\ toggles' = <<>>
    /\ UNCHANGED <<pc, trayBuilt, siRegistered, listening, readyEmits, vIn, vOut>>

\* on_tray_icon_event: TrayIconEvent::Click { .. }
TrayClick ==
    /\ pc = "running"
    /\ trayBuilt
    /\ \E showOk \in BOOLEAN, focusOk \in BOOLEAN :
        LET r == ShowAndFocus(window, showOk, focusOk)
        IN  /\ window' = r.window
            /\ hostCalls' = r.calls
    /\ lastOp' = Op("tray_click", window)
    /\ lastEmits' = <<>>
    /\ toggles' = <<>>
    /\ UNCHANGED <<pc, trayBuilt, siRegistered, listening, readyEmits, vIn, vOut>>

\* Mutant of TrayQuit: quit hides the window and leaves the process running.
TrayQuitHides ==
    /\ pc = "running"
    /\ trayBuilt
    /\ \E hideOk \in BOOLEAN :
        /\ window' = IF window.exists THEN HostHide(window, hideOk) ELSE window
        /\ hostCalls' = IF window.exists THEN <<Call("hide", hideOk)>> ELSE <<>>
    /\ lastOp' = Op("tray_quit", window)
    /\ lastEmits' = <<>>
    /\ toggles' = <<>>
    /\ UNCHANGED <<pc, trayBuilt, siRegistered, listening, readyEmits, vIn, vOut>>

\* "quit" => app.exit(0)
TrayQuit ==
    /\ pc = "running"
    /\ trayBuilt
    /\ pc' = "exited"
    /\ lastOp' = Op("tray_quit", window)
    /\ hostCalls' = <<>>
    /\ lastEmits' = <<>>
    /\ toggles' = <<>>
    /\ UNCHANGED <<window, trayBuilt, siRegistered, listening, readyEmits, vIn, vOut>>

(***************************************************************************)
(* Host signals.  The single-instance callback can run from the moment it  *)
(* is installed, the deep-link listener from the moment it is registered;  *)
(* neither waits for setup to finish.                                      *)
(***************************************************************************)
SingleInstanceWith(argLists) ==
    /\ Alive
    /\ siRegistered
    /\ \E args \in argLists, cwd \in CwdPool,
          showOk \in BOOLEAN, focusOk \in BOOLEAN, emitOk \in BOOLEAN :
        LET r == ShowAndFocus(window, showOk, focusOk)
        IN  /\ window' = r.window
            /\ hostCalls' = r.calls
            /\ lastEmits' = SingleInstanceEmits(safe_args(args), cwd, emitOk)
            /\ lastOp' = [Op("single_instance", window) EXCEPT
                            !.args = args, !.cwd = cwd,
                            !.order = SingleInstanceOrder(hostCalls', lastEmits')]
    /\ toggles' = <<>>
    /\ UNCHANGED <<pc, trayBuilt, siRegistered, listening, readyEmits, vIn, vOut>>

\* Mutant of DeepLinkNewUrlWith: the payload is parsed with unwrap(), a parse
\* error panics.
DeepLinkNewUrlUnwrap(payloads) ==
    /\ Alive
    /\ listening
    /\ \E payload \in payloads, emitOk \in BOOLEAN :
        LET parsed == ParseVecString(payload)
        IN  /\ lastEmits' = IF parsed.ok
                            THEN DeepLinkEmits(safe_urls(parsed.urls), emitOk)
                            ELSE <<>>
            /\ pc' = IF parsed.ok THEN pc ELSE "panicked"
            /\ lastOp' = [Op("deep_link_new_url", window) EXCEPT
                            !.payload = payload, !.dropped = ~parsed.ok]
    /\ hostCalls' = <<>>
    /\ toggles' = <<>>
    /\ UNCHANGED <<window, trayBuilt, siRegistered, listening, readyEmits, vIn, vOut>>

DeepLinkNewUrlWith(payloads) ==
    /\ Alive
    /\ listening
    /\ \E payload \in payloads, emitOk \in BOOLEAN :
        LET parsed == ParseVecString(payload)
        IN  /\ lastEmits' = IF parsed.ok
                            THEN DeepLinkEmits(safe_urls(parsed.urls), emitOk)
                            ELSE <<>>
            /\ lastOp' = [Op("deep_link_new_url", window) EXCEPT
                            !.payload = payload, !.dropped = ~parsed.ok]
    /\ hostCalls' = <<>>
    /\ toggles' = <<>>
    /\ UNCHANGED <<pc, window, trayBuilt, siRegistered, listening, readyEmits, vIn, vOut>>

SingleInstance == SingleInstanceWith(LiveArgLists)

DeepLinkNewUrl == DeepLinkNewUrlWith(LivePayloads)

Next ==
    \/ RegisterPlugins
    \/ setup_tray
    \/ RegisterListener
    \/ EmitReady
    \/ get_app_version
    \/ get_platform
    \/ set_badge_count
    \/ toggle_window_visibility
    \/ TrayShow
    \/ TrayClick
    \/ TrayQuit
    \/ SingleInstance
    \/ DeepLinkNewUrl

Spec == Init /\ [][Next]_vars

(***************************************************************************)
(* Signal harness: startup, with host signals of up to MaxArgs arguments   *)
(* delivered at every point of it, none right after another.               *)
(***************************************************************************)
NoSignalJustHandled == lastOp.op \notin {"single_instance", "deep_link_new_url"}

SingleInstanceOnce == NoSignalJustHandled /\ SingleInstanceWith(ArgLists)

DeepLinkNewUrlOnce == NoSignalJustHandled /\ DeepLinkNewUrlWith(Payloads)

NextSignals ==
    \/ RegisterPlugins
    \/ setup_tray
    \/ RegisterListener
    \/ EmitReady
    \/ SingleInstanceOnce
    \/ DeepLinkNewUrlOnce

SpecSignals == Init /\ [][NextSignals]_vars

(***************************************************************************)
(* Validator harness: is_valid_deep_link applied to one input at a time.   *)
(***************************************************************************)
InitValidator ==
    /\ pc = "start"
    /\ window = Absent
    /\ trayBuilt = FALSE
    /\ siRegistered = FALSE
    /\ listening = FALSE
    /\ readyEmits = 0
    /\ lastOp = FirstOp(Absent)
    /\ hostCalls = <<>>
    /\ lastEmits = <<>>
    /\ toggles = <<>>
    /\ vIn \in ValidatorInputs
    /\ vOut = NoValidation

Validate ==
    /\ ~vOut.called
    /\ vOut' = [called |-> TRUE, result |-> is_valid_deep_link(vIn)]
    /\ UNCHANGED <<pc, window, trayBuilt, siRegistered, listening, readyEmits,
                   lastOp, hostCalls, lastEmits, toggles, vIn>>

NextValidator == Validate

SpecValidator == InitValidator /\ [][NextValidator]_vars

(***************************************************************************)
(* Properties.                                                             *)
(***************************************************************************)
IsWs(c) == c = " " \/ c = "\t" \/ c = "\n"

\* s is i whitespace characters, then a body that neither starts nor ends with
\* whitespace, then j whitespace characters, and the body starts with p.
BodyStartsWith(s, p) ==
    \E i \in 0..Len(s), j \in 0..Len(s) :
        /\ i + j <= Len(s)
        /\ \A k \in 1..i : IsWs(s[k])
        /\ \A k \in (Len(s) - j + 1)..Len(s) : IsWs(s[k])
        /\ i + j < Len(s) => ~IsWs(s[i + 1]) /\ ~IsWs(s[Len(s) - j])
        /\ Len(s) - i - j >= Len(p)
        /\ \A k \in 1..Len(p) : s[i + k] = p[k]

\* out is the elements of in that satisfy Keep, in the order of in: the n-th kept
\* element of in is out[n], and out has nothing else.
IsOrderedSelection(out, in, Keep(_)) ==
    LET kept == { k \in 1..Len(in) : Keep(in[k]) }
    IN  /\ Len(out) = Cardinality(kept)
        /\ \A k \in kept : out[Cardinality({ j \in kept : j <= k })] = in[k]

HasSchemeSeparator(a) ==
    \E i \in 1..(Len(a) - 2) : a[i] = ":" /\ a[i + 1] = "/" /\ a[i + 2] = "/"

UiSignalEvents == {"deep-link-received", "single-instance"}

\* C1: is_valid_deep_link(s) is true exactly when s, with its leading and trailing
\* whitespace removed, starts with "mailto:" or "forwardemail:"; it is false for
\* every other string and always returns.
C1_ValidIffAllowedPrefix ==
    vOut.called =>
        /\ vOut.result \in BOOLEAN
        /\ vOut.result <=>
              \/ BodyStartsWith(vIn, <<"m", "a", "i", "l", "t", "o", ":">>)
              \/ BodyStartsWith(vIn, <<"f", "o", "r", "w", "a", "r", "d",
                                       "e", "m", "a", "i", "l", ":">>)

\* C1 witness: an allowed URL with whitespace before and after it was accepted.
C1_Witness ==
    /\ vOut.called
    /\ vOut.result
    /\ Len(vIn) > 2
    /\ IsWs(vIn[1])
    /\ IsWs(vIn[Len(vIn)])

C3_NoEmptyDeepLinkEvent ==
    /\ \A i \in 1..Len(lastEmits) :
          lastEmits[i].name = "deep-link-received" => lastEmits[i].urls # <<>>
    /\ lastOp.op = "deep_link_new_url" =>
          \A U \in UrlLists :
              lastOp.payload = EncodeJson(U) =>
                  IF \E k \in 1..Len(U) : is_valid_deep_link(U[k])
                  THEN /\ Len(lastEmits) = 1
                       /\ lastEmits[1].name = "deep-link-received"
                  ELSE lastEmits = <<>>

\* C3 witness: the signal ["http://bad", "javascript:alert(1)"] was handled and
\* nothing was emitted.
C3_Witness ==
    /\ lastOp.op = "deep_link_new_url"
    /\ lastOp.payload = EncodeJson(<<UrlHttp, UrlJs>>)
    /\ lastEmits = <<>>

\* C4: the urls of an emitted deep-link-received are exactly the URLs of the signal
\* for which is_valid_deep_link is true, in their order and unmodified; no rejected
\* URL is in the payload.
C4_UrlsFiltered ==
    (lastOp.op = "deep_link_new_url" /\ lastEmits # <<>>) =>
        /\ lastEmits[1].name = "deep-link-received"
        /\ \A U \in UrlLists :
              lastOp.payload = EncodeJson(U) =>
                  IsOrderedSelection(lastEmits[1].urls, U, is_valid_deep_link)
        /\ \A i \in 1..Len(lastEmits[1].urls) :
              is_valid_deep_link(lastEmits[1].urls[i])

\* C4 witness: a signal with a padded forwardemail: URL, an http: URL and a mailto:
\* URL was forwarded as the padded URL, untouched, and the mailto: URL.
C4_Witness ==
    /\ lastOp.op = "deep_link_new_url"
    /\ lastOp.payload = EncodeJson(<<UrlCustomPadded, UrlHttp, UrlMailto>>)
    /\ Len(lastEmits) = 1
    /\ lastEmits[1].urls = <<UrlCustomPadded, UrlMailto>>

\* C5: set_badge_count(n) succeeds exactly when 0 <= n <= 99999; above that it
\* fails with "Badge count must be between 0 and 99999", and a rejected call makes
\* no host call, emits nothing and leaves the window as it was.
C5_BadgeRange ==
    lastOp.op = "set_badge_count" =>
        /\ lastOp.res.ok <=> (0 <= lastOp.count /\ lastOp.count <= 99999)
        /\ lastOp.count > 99999 =>
              lastOp.res = [ok |-> FALSE,
                            err |-> "Badge count must be between 0 and 99999"]
        /\ ~lastOp.res.ok =>
              /\ hostCalls = <<>>
              /\ lastEmits = <<>>
              /\ window = lastOp.pre

\* C5 witness: set_badge_count(100000) was rejected.
C5_Witness ==
    /\ lastOp.op = "set_badge_count"
    /\ lastOp.count = 100000
    /\ ~lastOp.res.ok

\* C6: every duplicate-launch signal makes exactly one single-instance emit, with
\* the signal's cwd, also when no argument is left after filtering, when the main
\* window does not exist and when show or set_focus fails.
C6_SingleInstanceAlwaysEmitted ==
    lastOp.op = "single_instance" =>
        /\ Len(lastEmits) = 1
        /\ lastEmits[1].name = "single-instance"
        /\ lastEmits[1].cwd = lastOp.cwd

\* C6 witness: args = [], cwd = "/tmp", no main window: the event {args: [],
\* cwd: "/tmp"} was emitted.
C6_Witness ==
    /\ lastOp.op = "single_instance"
    /\ lastOp.args = <<>>
    /\ lastOp.cwd = "/tmp"
    /\ ~lastOp.pre.exists
    /\ Len(lastEmits) = 1
    /\ lastEmits[1].args = <<>>
    /\ lastEmits[1].cwd = "/tmp"

\* C7: without a main window toggle_window_visibility fails with "Main window not
\* found" and makes no host call: no is_visible, show, hide or set_focus, no emit,
\* and the window state is unchanged.
C7_ToggleWithoutWindow ==
    (lastOp.op = "toggle_window_visibility" /\ ~lastOp.pre.exists) =>
        /\ lastOp.res = [ok |-> FALSE, err |-> "Main window not found"]
        /\ hostCalls = <<>>
        /\ lastEmits = <<>>
        /\ window = lastOp.pre

\* C7 witness: toggle_window_visibility was called without a main window.
C7_Witness ==
    /\ lastOp.op = "toggle_window_visibility"
    /\ ~lastOp.pre.exists
    /\ ~lastOp.res.ok

C9_ReadyBeforeSignalEvents ==
    (\E i \in 1..Len(lastEmits) : lastEmits[i].name \in UiSignalEvents) =>
        readyEmits >= 1

\* C10 as claimed: once startup has ended, whether the process runs, has quit or
\* has died in setup, the ready event has been emitted exactly once, and never
\* before the tray was built and the deep-link listener registered.
C10_ReadyExactlyOnce ==
    /\ pc \in {"running", "exited", "panicked"} => readyEmits = 1
    /\ readyEmits >= 1 => trayBuilt /\ listening

\* C10 as amended: the ready event is emitted at most once per process run, exactly
\* once in every run whose setup succeeds and not at all in a run whose tray
\* construction fails; only by setup, after the tray has been built and the
\* deep-link listener registered, never by a later callback or command.
C10_ReadyOnceAfterSetup ==
    /\ readyEmits <= 1
    /\ pc \in {"running", "exited"} => readyEmits = 1
    /\ (pc = "panicked" /\ ~trayBuilt) => readyEmits = 0
    /\ readyEmits >= 1 => trayBuilt /\ listening
    /\ \A i \in 1..Len(lastEmits) :
          lastEmits[i].name = "tauri-ready" =>
              /\ lastOp.op = "emit_ready"
              /\ Len(lastEmits) = 1
    /\ lastOp.op = "emit_ready" <=>
          (Len(lastEmits) = 1 /\ lastEmits[1].name = "tauri-ready")

\* C10 witness: the process runs, ready was emitted once, and commands and
\* callbacks have run since.
C10_Witness ==
    /\ pc = "running"
    /\ readyEmits = 1
    /\ lastOp.op = "tray_click"
    /\ trayBuilt
    /\ listening

\* C11: a deep-link signal whose payload is not the JSON encoding of a list of
\* strings is dropped in silence: the listener emits nothing, touches no
\* window, reports no error, the process keeps running and the listener stays
\* registered; a well-formed signal that arrives right after a dropped one is
\* processed as usual (its valid URLs, in order, in one deep-link-received
\* event, or no event if none is valid).
C11_MalformedDropped ==
    lastOp.op = "deep_link_new_url" =>
        LET lists == { u \in UrlLists : lastOp.payload = EncodeJson(u) }
        IN  /\ lists = {} =>
                /\ lastEmits = <<>>
                /\ hostCalls = <<>>
                /\ window = lastOp.pre
                /\ lastOp.res = Ok
                /\ Alive
                /\ listening
            /\ lastOp.afterDrop =>
                \A u \in lists :
                    LET kept == SelectSeq(u, is_valid_deep_link)
                    IN  IF kept = <<>> THEN lastEmits = <<>>
                        ELSE /\ Len(lastEmits) = 1
                             /\ lastEmits[1].name = "deep-link-received"
                             /\ lastEmits[1].urls = kept

C11_Witness ==
    /\ lastOp.op = "deep_link_new_url"
    /\ lastOp.afterDrop
    /\ Len(lastEmits) = 1
    /\ lastEmits[1].urls = <<UrlMailto>>

WindowActions == {"show", "hide", "set_focus"}

\* C12, as stated: a toggle on an existing main window fails with the host's
\* error whenever a show, hide or focus call it made failed, and returns ok
\* only when every host call it made succeeded.
C12_ToggleOkOnlyIfEveryHostCallOk ==
    (lastOp.op = "toggle_window_visibility" /\ lastOp.pre.exists) =>
        /\ (\E i \in 1..Len(hostCalls) :
                hostCalls[i].call \in WindowActions /\ ~hostCalls[i].ok)
                => lastOp.res = Err(HostErrorMsg)
        /\ lastOp.res.ok => \A i \in 1..Len(hostCalls) : hostCalls[i].ok

\* C12, amended: a toggle on an existing main window fails with the host's
\* error whenever a show, hide or focus call it made failed, and returns ok
\* exactly when every show, hide or focus call it made succeeded; a call that
\* failed is never followed by another.  A failure of the visibility
\* query is not returned.
C12_ToggleOkIffWindowCallsOk ==
    (lastOp.op = "toggle_window_visibility" /\ lastOp.pre.exists) =>
        LET failed == { i \in 1..Len(hostCalls) :
                          hostCalls[i].call \in WindowActions /\ ~hostCalls[i].ok }
        IN  /\ failed # {} => lastOp.res = Err(HostErrorMsg)
            /\ failed = {} => lastOp.res = Ok
            /\ \A i \in failed : i = Len(hostCalls)
            /\ \E i \in 1..Len(hostCalls) : hostCalls[i].call \in WindowActions

C12_Witness ==
    /\ lastOp.op = "toggle_window_visibility"
    /\ lastOp.pre.exists
    /\ Len(hostCalls) = 3
    /\ hostCalls[3] = Call("set_focus", FALSE)
    /\ lastOp.res = Err(HostErrorMsg)

SetupSteps == {"setup_tray", "emit_ready"}

\* C14, as stated: the process ends only by the tray's quit; no command
\* failure, malformed payload, failed emit or failure in setup ends it.
C14_OnlyQuitTerminates ==
    ~Alive => (pc = "exited" /\ lastOp.op = "tray_quit")

\* C14, amended: the process ends by the tray's quit, or by a failure of a
\* setup step (tray construction, emission of the ready event), and by nothing
\* else: after a failed command, a dropped payload or a failed emit of a
\* callback it is still alive.
C14_OnlyQuitOrSetupFailureTerminates ==
    /\ Alive \/ pc \in {"exited", "panicked"}
    /\ pc = "exited" <=> lastOp.op = "tray_quit"
    /\ pc = "panicked" <=> (lastOp.op \in SetupSteps /\ ~lastOp.res.ok)

C14_Witness ==
    /\ pc = "running"
    /\ lastOp.op = "single_instance"
    /\ lastOp.afterDrop
    /\ Len(lastEmits) = 1
    /\ ~lastEmits[1].ok

TrayOps == {"tray_show", "tray_click"}

\* What a tray step may do to the window and report of its host calls.
TrayOutcomes ==
    { [window |-> w, calls |-> c] :
        w \in [exists : BOOLEAN, visible : BOOLEAN, focused : BOOLEAN],
        c \in {<<>>} \cup { <<Call(a, x)>> : a \in WindowActions, x \in BOOLEAN }
               \cup { <<Call("show", x), Call("set_focus", y)>> :
                        x \in BOOLEAN, y \in BOOLEAN } }

\* C15, as stated: a click on the tray icon and the tray menu's show leave the
\* same state, the main window shown and focused if it exists and nothing
\* changed if it does not, and neither emits an event.
C15_ClickAndShowLeaveWindowShown ==
    lastOp.op \in TrayOps =>
        /\ lastEmits = <<>>
        /\ lastOp.pre.exists => (window.visible /\ window.focused)
        /\ ~lastOp.pre.exists => (window = lastOp.pre /\ hostCalls = <<>>)

\* C15, amended: a click on the tray icon and the tray menu's show do the
\* same: from every state each can produce exactly the outcomes the other
\* can; on an existing window both call show and then set_focus, leaving it
\* shown if show succeeded and focused if set_focus succeeded (shown and
\* focused when neither fails); on a missing window both change nothing;
\* neither emits an event nor ends the process.
C15_ClickEquivalentToShow ==
    /\ lastOp.op \in TrayOps =>
        /\ lastEmits = <<>>
        /\ pc = "running"
        /\ IF lastOp.pre.exists
           THEN /\ Len(hostCalls) = 2
                /\ hostCalls[1].call = "show"
                /\ hostCalls[2].call = "set_focus"
                /\ window = [exists  |-> TRUE,
                             visible |-> lastOp.pre.visible \/ hostCalls[1].ok,
                             focused |-> lastOp.pre.focused \/ hostCalls[2].ok]
           ELSE window = lastOp.pre /\ hostCalls = <<>>
    /\ \A o \in TrayOutcomes :
          (ENABLED (TrayClick /\ window' = o.window /\ hostCalls' = o.calls))
            <=> (ENABLED (TrayShow /\ window' = o.window /\ hostCalls' = o.calls))

C15_Witness ==
    /\ lastOp.op = "tray_click"
    /\ lastOp.pre.exists
    /\ ~lastOp.pre.visible
    /\ window.visible
    /\ window.focused

\* C16: quit ends the process at once, whatever the state of the window: the
\* quit step itself emits no event and makes no window call, and once the
\* process has exited nothing changes any more: no event is emitted, no
\* window is shown, hidden or focused, no callback or command runs.
C16_QuitIsFinal ==
    /\ [](lastOp.op = "tray_quit" =>
            /\ pc = "exited"
            /\ lastEmits = <<>>
            /\ hostCalls = <<>>
            /\ window = lastOp.pre)
    /\ [](pc = "exited" => lastOp.op = "tray_quit")
    /\ [][pc = "exited" => UNCHANGED vars]_vars

C16_Witness ==
    /\ pc = "exited"
    /\ lastOp.op = "tray_quit"
    /\ window.exists
    /\ ~window.visible
    /\ siRegistered
    /\ listening

\* The host's answer to the visibility query of the latest toggle: the
\* window's visibility when the call was made, if the query succeeded.
ReportedVisible == hostCalls[1].ok /\ lastOp.pre.visible

\* C17, as stated: a toggle on an existing window asks the host for the
\* visibility at the moment of the call; reported visible, it only hides;
\* reported hidden, it shows and then focuses; if the query fails it shows
\* and then focuses as for a hidden window and the query's failure is not
\* returned.
C17_ToggleShowsThenFocuses ==
    (lastOp.op = "toggle_window_visibility" /\ lastOp.pre.exists) =>
        /\ hostCalls # <<>>
        /\ hostCalls[1].call = "is_visible"
        /\ IF ReportedVisible
           THEN CallNames(hostCalls) = <<"is_visible", "hide">>
           ELSE CallNames(hostCalls) = <<"is_visible", "show", "set_focus">>
        /\ (\A i \in 2..Len(hostCalls) : hostCalls[i].ok) => lastOp.res = Ok

\* C17, amended: as above, except that the focus call is made only when the
\* show call has succeeded.  The window ends as the successful calls leave
\* it.
C17_ToggleFollowsReportedVisibility ==
    (lastOp.op = "toggle_window_visibility" /\ lastOp.pre.exists) =>
        /\ hostCalls # <<>>
        /\ hostCalls[1].call = "is_visible"
        /\ IF ReportedVisible
           THEN /\ CallNames(hostCalls) = <<"is_visible", "hide">>
                /\ window = IF hostCalls[2].ok
                            THEN [lastOp.pre EXCEPT !.visible = FALSE, !.focused = FALSE]
                            ELSE lastOp.pre
           ELSE IF hostCalls[2].ok
           THEN /\ CallNames(hostCalls) = <<"is_visible", "show", "set_focus">>
                /\ window = [lastOp.pre EXCEPT
                               !.visible = TRUE,
                               !.focused = lastOp.pre.focused \/ hostCalls[3].ok]
           ELSE /\ CallNames(hostCalls) = <<"is_visible", "show">>
                /\ window = lastOp.pre
        /\ (\A i \in 2..Len(hostCalls) : hostCalls[i].ok) => lastOp.res = Ok

\* C17 witness: the query of a toggle on a visible window failed: the toggle
\* shows and focuses the window, as if it were hidden, and returns ok.
C17_Witness ==
    /\ lastOp.op = "toggle_window_visibility"
    /\ lastOp.pre.exists
    /\ lastOp.pre.visible
    /\ ~hostCalls[1].ok
    /\ CallNames(hostCalls) = <<"is_visible", "show", "set_focus">>
    /\ lastOp.res = Ok

\* C18: on every second-launch signal, if the main window exists the callback
\* calls show and set_focus on it before it emits the single-instance event,
\* so that the window is visible when the event is emitted unless the host's
\* show failed; if the main window does not exist the callback makes no
\* window call and no window appears; the event is emitted all the same.
C18_WindowRaisedBeforeEvent ==
    lastOp.op = "single_instance" =>
        /\ Len(lastEmits) = 1
        /\ lastEmits[1].name = "single-instance"
        /\ IF lastOp.pre.exists
           THEN /\ lastOp.order = <<"show", "set_focus", "single-instance">>
                /\ CallNames(hostCalls) = <<"show", "set_focus">>
                /\ hostCalls[1].ok => window.visible
                /\ hostCalls[2].ok => window.focused
                /\ window.exists
           ELSE /\ lastOp.order = <<"single-instance">>
                /\ hostCalls = <<>>
                /\ window = Absent

C18_Witness ==
    /\ lastOp.op = "single_instance"
    /\ lastOp.pre.exists
    /\ ~lastOp.pre.visible
    /\ window.visible
    /\ lastOp.order = <<"show", "set_focus", "single-instance">>
    /\ lastEmits[1].ok

PassiveCommands == {"get_app_version", "get_platform", "set_badge_count"}

\* C19: get_app_version, get_platform and set_badge_count, accepted or
\* rejected, leave the window as it was, make no window call, emit no event
\* and leave the process running, whatever ran before them; get_app_version
\* and get_platform never fail and return the build's version and its
\* os-arch pair on every call; and every window call of every command and
\* callback is made on the window labelled "main".
C19_PassiveCommands ==
    /\ lastOp.op \in PassiveCommands =>
        /\ window = lastOp.pre
        /\ hostCalls = <<>>
        /\ lastEmits = <<>>
        /\ pc = "running"
    /\ lastOp.op = "get_app_version" =>
        (lastOp.res = Ok /\ lastOp.ret = "CARGO_PKG_VERSION")
    /\ lastOp.op = "get_platform" =>
        (lastOp.res = Ok /\ lastOp.ret = TargetOs \o "-" \o TargetArch)
    /\ lastOp.op = "set_badge_count" => lastOp.ret = ""
    /\ \A i \in 1..Len(hostCalls) : hostCalls[i].target = "main"

\* C19 witness: get_platform, called right after the listener dropped a
\* payload, on a visible and focused window.
C19_Witness ==
    /\ lastOp.op = "get_platform"
    /\ lastOp.afterDrop
    /\ lastOp.ret = "linux-x86_64"
    /\ window.visible
    /\ window.focused

====
